---- MODULE Spec2Model ----
(***************************************************************************)
(* Model of the blog/portfolio site's logic: the date formatter            *)
(* (formatDate) and the two content collections (blog, projects) with      *)
(* their schemas and loaders.                                              *)
(*                                                                         *)
(* Strings are sequences of one-character strings, so that split, Number,  *)
(* the date pattern of the schema and the rendering of a date are computed *)
(* character by character.  Time values are counted in ticks of 15         *)
(* minutes (every zone offset of the model is a multiple of 15 minutes).   *)
(***************************************************************************)
EXTENDS Integers, Sequences, FiniteSets, TLC

VARIABLES
    tz,        \* the host runtime's configured time zone
    dateStr,   \* the argument formatDate is called with
    out,       \* outcome of the latest formatDate call
    prev,      \* outcome of the call before it (same argument, same host)
    coll,      \* the collection whose schema is applied
    raw,       \* an unvalidated record: frontmatter, or an element of the JSON array
    parsed,    \* outcome of applying the collection's schema to raw
    projectsExists, \* whether ./src/content/projects/projects.json exists
    projectsJson,   \* the array in ./src/content/projects/projects.json
    projectsStore,  \* the data store's entries of collection projects
    projectsLoad,   \* outcome of the latest load of projects
    projectsPrev,   \* outcome of the load before it
    blogExists,     \* whether the directory ./src/content/blog exists
    blogDir,        \* the files under ./src/content/blog: path -> frontmatter
    blogStore,      \* the data store's entries of collection blog
    blogLoad,       \* outcome of the latest load of blog
    blogPrev,       \* outcome of the load before it
    contents        \* the text of a Markdown file of the blog, line by line

fmtVars == <<tz, dateStr, out, prev>>
schemaVars == <<coll, raw, parsed>>
projectsVars == <<projectsExists, projectsJson, projectsStore, projectsLoad, projectsPrev>>
blogVars == <<blogExists, blogDir, blogStore, blogLoad, blogPrev>>

vars == <<fmtVars, schemaVars, projectsVars, blogVars, contents>>

----------------------------------------------------------------------------
(* Outcomes: of a formatDate call, of a schema applied to a record, of a  *)
(* load; and the values the variables of a component hold while a         *)
(* specification exercises another component.                             *)

NoCall == [called |-> FALSE, threw |-> FALSE, str |-> <<>>]
Returned(s) == [called |-> TRUE, threw |-> FALSE, str |-> s]
Thrown == [called |-> TRUE, threw |-> TRUE, str |-> <<>>]

NotParsed == [done |-> FALSE, success |-> FALSE, issues |-> {}, data |-> <<>>]
ParseFailure(issues) == [done |-> TRUE, success |-> FALSE, issues |-> issues, data |-> <<>>]
ParseSuccess(data) == [done |-> TRUE, success |-> TRUE, issues |-> {}, data |-> data]

\* what a validation error tells: the collection, the entry's id, the file
\* the entry was read from, the fields that failed
NoFailure == [coll |-> "none", id |-> <<>>, file |-> <<>>, issues |-> {}]

NotLoaded ==
    [n |-> 0, status |-> "none", entries |-> <<>>, failed |-> NoFailure,
     exists |-> FALSE, src |-> <<>>]

FormatIdle ==
    /\ tz = [name |-> "UTC", before |-> 0, after |-> 0, at |-> 0]
    /\ dateStr = <<>>
    /\ out = NoCall
    /\ prev = NoCall

SchemaIdle ==
    /\ coll = "none"
    /\ raw = <<>>
    /\ parsed = NotParsed

LoadIdle ==
    /\ projectsExists = FALSE
    /\ projectsJson = <<>>
    /\ projectsStore = <<>>
    /\ projectsLoad = NotLoaded
    /\ projectsPrev = NotLoaded
    /\ blogExists = FALSE
    /\ blogDir = <<>>
    /\ blogStore = <<>>
    /\ blogLoad = NotLoaded
    /\ blogPrev = NotLoaded

EntryIdle == contents = <<>>

----------------------------------------------------------------------------
(* Characters and decimal numerals *)

Digits == <<"0", "1", "2", "3", "4", "5", "6", "7", "8", "9">>

DigitSet == {Digits[i] : i \in 1..10}

IsDigit(c) == c \in DigitSet

DigitVal(c) == CHOOSE v \in 0..9 : Digits[v + 1] = c

AllDigits(s) == \A i \in 1..Len(s) : IsDigit(s[i])

RECURSIVE DecimalValue(_)
DecimalValue(s) ==
    IF s = <<>> THEN 0
    ELSE 10 * DecimalValue(SubSeq(s, 1, Len(s) - 1)) + DigitVal(s[Len(s)])

\* the shortest decimal numeral of a natural number
RECURSIVE Decimal(_)
Decimal(n) ==
    IF n < 10 THEN <<Digits[n + 1]>>
    ELSE Append(Decimal(n \div 10), Digits[(n % 10) + 1])

RECURSIVE PadStart(_, _)
PadStart(s, width) == IF Len(s) >= width THEN s ELSE PadStart(<<"0">> \o s, width)

----------------------------------------------------------------------------
(* ECMAScript values used by formatDate *)

JSNum(n) == [k |-> "number", v |-> n]
NaN == [k |-> "nan", v |-> 0]
Undefined == [k |-> "undefined", v |-> 0]

IsFinite(x) == x.k = "number"

IsWhiteSpace(c) == c = " "

RECURSIVE TrimStart(_)
TrimStart(s) ==
    IF s # <<>> /\ IsWhiteSpace(s[1]) THEN TrimStart(Tail(s)) ELSE s

RECURSIVE TrimEnd(_)
TrimEnd(s) ==
    IF s # <<>> /\ IsWhiteSpace(s[Len(s)])
    THEN TrimEnd(SubSeq(s, 1, Len(s) - 1)) ELSE s

\* Number(piece): white space is trimmed, the empty string is 0, a decimal
\* numeral is its value, any other text of the model's alphabet is NaN.
Number(piece) ==
    LET t == TrimEnd(TrimStart(piece))
    IN  IF t = <<>> THEN JSNum(0)
        ELSE IF AllDigits(t) THEN JSNum(DecimalValue(t))
        ELSE NaN

\* ToNumber of a destructured array element (undefined when absent)
ToNumber(x) == IF x.k = "undefined" THEN NaN ELSE x

\* dateStr.split('-')
RECURSIVE splitAcc(_, _, _, _)
splitAcc(s, i, cur, acc) ==
    IF i > Len(s) THEN Append(acc, cur)
    ELSE IF s[i] = "-" THEN splitAcc(s, i + 1, <<>>, Append(acc, cur))
    ELSE splitAcc(s, i + 1, Append(cur, s[i]), acc)

split(s) == splitAcc(s, 1, <<>>, <<>>)

\* const [a, b, c] = parts.map(Number): element i, undefined past the end
Element(parts, i) == IF i <= Len(parts) THEN Number(parts[i]) ELSE Undefined

\* month - 1
Minus1(x) == IF ToNumber(x).k = "number" THEN JSNum(x.v - 1) ELSE NaN

----------------------------------------------------------------------------
(* ECMAScript day arithmetic (proleptic Gregorian calendar) *)

TicksPerDay == 96

MaxTimeDays == 100000000

DaysInYear(y) ==
    IF y % 4 # 0 THEN 365
    ELSE IF y % 100 # 0 THEN 366
    ELSE IF y % 400 # 0 THEN 365
    ELSE 366

InLeapYear(y) == DaysInYear(y) = 366

DayFromYear(y) ==
    365 * (y - 1970) + ((y - 1969) \div 4) - ((y - 1901) \div 100)
        + ((y - 1601) \div 400)

\* days before month m (0 = January) within a year
MonthStart(m, leap) ==
    LET base == <<0, 31, 59, 90, 120, 151, 181, 212, 243, 273, 304, 334>>
    IN  base[m + 1] + (IF leap /\ m >= 2 THEN 1 ELSE 0)

\* MakeDay(year, month, date): the month may be any integer, the date too
MakeDay(y, m, dt) ==
    LET ym == y + (m \div 12)
        mn == m % 12
    IN  DayFromYear(ym) + MonthStart(mn, InLeapYear(ym)) + dt - 1

RECURSIVE YearUp(_, _)
YearUp(y, d) == IF DayFromYear(y + 1) <= d THEN YearUp(y + 1, d) ELSE y

\* YearFromTime: the largest year starting on or before day d
YearFromDay(d) ==
    YearUp(IF d >= 0 THEN 1970 + (d \div 366) ELSE 1970 + (d \div 365) - 1, d)

DayWithinYear(d) == d - DayFromYear(YearFromDay(d))

MonthFromDay(d) ==
    LET leap == InLeapYear(YearFromDay(d))
        w == DayWithinYear(d)
    IN  CHOOSE m \in 0..11 :
            /\ MonthStart(m, leap) <= w
            /\ (m = 11 \/ w < MonthStart(m + 1, leap))

DateFromDay(d) ==
    DayWithinYear(d) - MonthStart(MonthFromDay(d), InLeapYear(YearFromDay(d))) + 1

----------------------------------------------------------------------------
(* The host's time zone: an offset from UTC, which for a zone with a       *)
(* transition changes at one instant.                                      *)

FixedZone(name, offset) ==
    [name |-> name, before |-> offset, after |-> offset, at |-> 0]

\* Pacific/Apia moved across the date line at 2011-12-30T10:00Z, from
\* UTC-10 to UTC+14: its local calendar has no 30 December 2011.
Apia ==
    [name |-> "Pacific/Apia", before |-> -40, after |-> 56,
     at |-> MakeDay(2011, 11, 30) * TicksPerDay + 40]

Zones ==
    { FixedZone("Etc/GMT+12", -48),
      FixedZone("Asia/Kolkata", 22),
      FixedZone("Pacific/Kiritimati", 56),
      Apia }

OffsetAt(z, u) == IF u < z.at THEN z.before ELSE z.after

\* LocalTime(t): UTC to local
LocalTime(z, u) == u + OffsetAt(z, u)

\* UTC(t): local to UTC.  Of the instants whose local time is t the earliest
\* is taken; a local time skipped by the transition is read with the
\* offset in force before it.
UTC(z, t) ==
    LET a == t - z.before
        b == t - z.after
        okA == a < z.at
        okB == b >= z.at
    IN  IF okA /\ okB THEN (IF a <= b THEN a ELSE b)
        ELSE IF okA THEN a
        ELSE IF okB THEN b
        ELSE a

\* TimeClip: a time value more than 100,000,000 days from the epoch is NaN
TimeClip(t) ==
    LET d == t \div TicksPerDay
        r == t % TicksPerDay
    IN  IF d > MaxTimeDays \/ (d = MaxTimeDays /\ r > 0) \/ d < 0 - MaxTimeDays
        THEN NaN ELSE JSNum(t)

----------------------------------------------------------------------------
(* formatDate *)

\* a constructor that takes no month index outside 0..11 and no day that its
\* month does not have: such fields give the invalid date
NewDate_inRangeOnly(z, year, monthIndex, day) ==
    LET y == ToNumber(year)
        m == ToNumber(monthIndex)
        dt == ToNumber(day)
    IN  IF ~IsFinite(y) \/ ~IsFinite(m) \/ ~IsFinite(dt) THEN NaN
        ELSE LET yr == IF 0 <= y.v /\ y.v <= 99 THEN 1900 + y.v ELSE y.v
                 d == MakeDay(yr, m.v, dt.v)
             IN  IF m.v \in 0..11 /\ MonthFromDay(d) = m.v /\ DateFromDay(d) = dt.v
                 THEN TimeClip(UTC(z, d * TicksPerDay))
                 ELSE NaN

\* new Date(year, monthIndex, day): local calendar fields, midnight.
\* A year of 0..99 is read as 1900 + year.
NewDate(z, year, monthIndex, day) ==
    LET y == ToNumber(year)
        m == ToNumber(monthIndex)
        dt == ToNumber(day)
    IN  IF ~IsFinite(y) \/ ~IsFinite(m) \/ ~IsFinite(dt) THEN NaN
        ELSE LET yr == IF 0 <= y.v /\ y.v <= 99 THEN 1900 + y.v ELSE y.v
             IN  TimeClip(UTC(z, MakeDay(yr, m.v, dt.v) * TicksPerDay))

MonthShort ==
    << <<"J", "a", "n">>, <<"F", "e", "b">>, <<"M", "a", "r">>,
       <<"A", "p", "r">>, <<"M", "a", "y">>, <<"J", "u", "n">>,
       <<"J", "u", "l">>, <<"A", "u", "g">>, <<"S", "e", "p">>,
       <<"O", "c", "t">>, <<"N", "o", "v">>, <<"D", "e", "c">> >>

InvalidDate == <<"I", "n", "v", "a", "l", "i", "d", " ", "D", "a", "t", "e">>

\* year: 'numeric' (the year's shortest numeral; every year the model
\* reaches is positive, split('-') leaves no sign)
YearNumeric(y) == Decimal(y)

\* month: 'short'
MonthShortName(m) == MonthShort[m + 1]

\* day: 'numeric' in place of '2-digit'
Day2Digit_numeric(d) == Decimal(d)

\* day: '2-digit'
Day2Digit(d) == PadStart(Decimal(d), 2)

\* a rendering that formats an invalid date the way Intl.DateTimeFormat's
\* format does: by throwing a RangeError
toLocaleDateString_throwing(z, date) ==
    IF ~IsFinite(date) THEN Thrown
    ELSE LET d == LocalTime(z, date.v) \div TicksPerDay
         IN  Returned(MonthShortName(MonthFromDay(d)) \o <<" ">>
                      \o Day2Digit(DateFromDay(d)) \o <<",", " ">>
                      \o YearNumeric(YearFromDay(d)))

\* date.toLocaleDateString('en-US', {year: 'numeric', month: 'short',
\* day: '2-digit'}): the local calendar date of the time value as
\* "Mon DD, Y"; "Invalid Date" for NaN.
toLocaleDateString(z, date) ==
    IF ~IsFinite(date) THEN Returned(InvalidDate)
    ELSE LET d == LocalTime(z, date.v) \div TicksPerDay
         IN  Returned(MonthShortName(MonthFromDay(d)) \o <<" ">>
                      \o Day2Digit(DateFromDay(d)) \o <<",", " ">>
                      \o YearNumeric(YearFromDay(d)))

formatDate(z, s) ==
    LET parts == split(s)
        year == Element(parts, 1)
        month == Element(parts, 2)
        day == Element(parts, 3)
        date == NewDate(z, year, Minus1(month), day)
    IN  toLocaleDateString(z, date)

----------------------------------------------------------------------------
(* Arguments formatDate is exercised with *)

MaxMonth == 13
MaxDay == 32

YearSet == {0, 4, 99, 100, 999, 1000, 1900, 2000, 2011, 2023, 2024, 9999}

Ymd(y, m, d) ==
    PadStart(Decimal(y), 4) \o <<"-">> \o PadStart(Decimal(m), 2)
        \o <<"-">> \o PadStart(Decimal(d), 2)

DateLikeInputs == {Ymd(y, m, d) : y \in YearSet, m \in 0..MaxMonth, d \in 0..MaxDay}

MalformedInputs ==
    { <<>>,
      <<"a">>,
      <<"2", "0", "2", "3">>,
      <<"2", "0", "2", "3", "-", "0", "6">>,
      <<"2", "0", "2", "3", "-", "0", "6", "-">>,
      <<"2", "0", "2", "3", "-", "a", "a", "-", "1", "2">>,
      <<"2", "0", "2", "3", "-", "0", "6", "-", "1", "a">>,
      <<"2", "0", "2", "3", "-", "6", "-", "1">>,
      <<"2", "0", "2", "3", "-", "0", "6", "-", "1", "2", "-", "0", "9">>,
      <<"-", "2", "0", "2", "3", "-", "0", "6", "-", "1", "2">>,
      <<" ", "2", "0", "2", "3", "-", "0", "6", "-", "1", "2", " ">>,
      <<"2", "0", "2", "3", "/", "0", "6", "/", "1", "2">> }

FormatInputs == DateLikeInputs \cup MalformedInputs

----------------------------------------------------------------------------
(* Specification of the date formatter: the host's zone and the argument   *)
(* are fixed for a run; the function is called, and called again.          *)

InitFormat ==
    /\ tz \in Zones
    /\ dateStr \in FormatInputs
    /\ out = NoCall
    /\ prev = NoCall
    /\ SchemaIdle
    /\ LoadIdle
    /\ EntryIdle

CallFormatDate ==
    /\ ~prev.called
    /\ out' = formatDate(tz, dateStr)
    /\ prev' = out
    /\ UNCHANGED <<contents, tz, dateStr, schemaVars, projectsVars, blogVars>>

NextFormat == CallFormatDate

SpecFormat == InitFormat /\ [][NextFormat]_vars

----------------------------------------------------------------------------
(* Properties of formatDate *)

\* a real calendar date written YYYY-MM-DD
DaysInMonth(y, m) ==
    IF m = 2 THEN (IF InLeapYear(y) THEN 29 ELSE 28)
    ELSE IF m \in {4, 6, 9, 11} THEN 30 ELSE 31

IsYmdSyntax(s) ==
    /\ Len(s) = 10
    /\ \A i \in {1, 2, 3, 4, 6, 7, 9, 10} : IsDigit(s[i])
    /\ s[5] = "-"
    /\ s[8] = "-"

YearOf(s) == DecimalValue(SubSeq(s, 1, 4))
MonthOf(s) == DecimalValue(SubSeq(s, 6, 7))
DayOf(s) == DecimalValue(SubSeq(s, 9, 10))

IsCalendarDate(s) ==
    /\ IsYmdSyntax(s)
    /\ MonthOf(s) \in 1..12
    /\ DayOf(s) \in 1..DaysInMonth(YearOf(s), MonthOf(s))

IsMonthName(s) == \E i \in 1..12 : MonthShort[i] = s

\* "Mon DD, Y..." with a year of yearLen digits
HasShortFormat(str, yearLen) ==
    /\ Len(str) = 8 + yearLen
    /\ IsMonthName(SubSeq(str, 1, 3))
    /\ str[4] = " "
    /\ IsDigit(str[5])
    /\ IsDigit(str[6])
    /\ str[7] = ","
    /\ str[8] = " "
    /\ AllDigits(SubSeq(str, 9, Len(str)))

Jun12_2023_In == <<"2", "0", "2", "3", "-", "0", "6", "-", "1", "2">>
Jun12_2023_Out == <<"J", "u", "n", " ", "1", "2", ",", " ", "2", "0", "2", "3">>

\* C1: for every valid YYYY-MM-DD argument, in every host time zone, the
\* day of month formatDate shows is the day component of the argument.
C1_DayPreserved ==
    (out.called /\ IsCalendarDate(dateStr)) =>
        /\ ~out.threw
        /\ Len(out.str) >= 6
        /\ SubSeq(out.str, 5, 6) = SubSeq(dateStr, 9, 10)

\* C2 as stated: for every valid YYYY-MM-DD argument the result is
\* "<month abbreviation> <two-digit day>, <four-digit year>", and
\* formatDate("2023-06-12") is "Jun 12, 2023".
C2_FourDigitYear ==
    (out.called /\ IsCalendarDate(dateStr)) =>
        /\ HasShortFormat(out.str, 4)
        /\ (dateStr = Jun12_2023_In => out.str = Jun12_2023_Out)

\* C2 as amended: for every valid YYYY-MM-DD argument the result is
\* "<month abbreviation> <two-digit day>, <year>" where the year is a
\* numeral without leading zero, of three digits exactly when the
\* argument's year is 0100..0999 and of four digits otherwise, and
\* formatDate("2023-06-12") is "Jun 12, 2023".
C2_ShortFormat ==
    (out.called /\ IsCalendarDate(dateStr)) =>
        /\ \E n \in {3, 4} :
              /\ HasShortFormat(out.str, n)
              /\ (n = 3) <=> (YearOf(dateStr) \in 100..999)
        /\ out.str[9] # "0"
        /\ (dateStr = Jun12_2023_In => out.str = Jun12_2023_Out)

C2_Witness ==
    /\ out.called
    /\ dateStr = Jun12_2023_In
    /\ out.str = Jun12_2023_Out

ReadYear(y) == IF y <= 99 THEN 1900 + y ELSE y

\* "Mon DD, Y" of a calendar date
ShortDate(y, m, d) ==
    MonthShort[m] \o <<" ">> \o PadStart(Decimal(d), 2) \o <<",", " ">> \o Decimal(y)

\* the argument is YYYY-MM-DD with a month of 1..13 and a day of 1 or more
\* that is no calendar date: month 13, or a day past the end of its month
Overflows(s) ==
    /\ IsYmdSyntax(s)
    /\ MonthOf(s) \in 1..13
    /\ DayOf(s) >= 1
    /\ \/ MonthOf(s) = 13
       \/ DayOf(s) > DaysInMonth(ReadYear(YearOf(s)), MonthOf(s))

\* the calendar date the overflow lands on: month 13 is January of the next
\* year, the days past the end of a month are counted into the next month
RolledOver(s) ==
    LET y1 == IF MonthOf(s) = 13 THEN ReadYear(YearOf(s)) + 1 ELSE ReadYear(YearOf(s))
        m1 == IF MonthOf(s) = 13 THEN 1 ELSE MonthOf(s)
        over == DayOf(s) > DaysInMonth(y1, m1)
    IN  [y |-> IF over /\ m1 = 12 THEN y1 + 1 ELSE y1,
         m |-> IF over THEN (m1 % 12) + 1 ELSE m1,
         d |-> IF over THEN DayOf(s) - DaysInMonth(y1, m1) ELSE DayOf(s)]

Feb30_2023_In == <<"2", "0", "2", "3", "-", "0", "2", "-", "3", "0">>
Mar02_2023_Out == <<"M", "a", "r", " ", "0", "2", ",", " ", "2", "0", "2", "3">>
Month13_2023_In == <<"2", "0", "2", "3", "-", "1", "3", "-", "0", "1">>
Jan01_2024_Out == <<"J", "a", "n", " ", "0", "1", ",", " ", "2", "0", "2", "4">>

\* C13: formatDate does not reject an out-of-range component: an argument
\* whose day is past the end of its month, or whose month is 13, returns the
\* short form of the date the overflow rolls over to, in the following month
\* or year: "2023-02-30" gives "Mar 02, 2023" and "2023-13-01" gives
\* "Jan 01, 2024".
C13_OverflowRollsOver ==
    (out.called /\ Overflows(dateStr)) =>
        /\ ~out.threw
        /\ out.str # InvalidDate
        /\ LET r == RolledOver(dateStr)
           IN  out.str = ShortDate(r.y, r.m, r.d)
        /\ (dateStr = Feb30_2023_In => out.str = Mar02_2023_Out)
        /\ (dateStr = Month13_2023_In => out.str = Jan01_2024_Out)

C13_Witness ==
    /\ out.called
    /\ dateStr = Feb30_2023_In
    /\ out.str = Mar02_2023_Out

----------------------------------------------------------------------------
(* Unvalidated data:the values YAML frontmatter and JSON hold.  A key an  *)
(* object does not carry reads as undefined.                               *)

VUndef == [kind |-> "undefined", str |-> <<>>, num |-> 0, items |-> <<>>]
VStr(s) == [kind |-> "string", str |-> s, num |-> 0, items |-> <<>>]
VNum(n) == [kind |-> "number", str |-> <<>>, num |-> n, items |-> <<>>]
VArr(xs) == [kind |-> "array", str |-> <<>>, num |-> 0, items |-> xs]

----------------------------------------------------------------------------
(* z.string().date(): the pattern                                           *)
(*   ^((\d\d[2468][048]|\d\d[13579][26]|\d\d0[48]|[02468][048]00           *)
(*      |[13579][26]00)-02-29                                               *)
(*     |\d{4}-((0[13578]|1[02])-(0[1-9]|[12]\d|3[01])                       *)
(*            |(0[469]|11)-(0[1-9]|[12]\d|30)                               *)
(*            |(02)-(0[1-9]|1\d|2[0-8])))$                                  *)

In(c, class) == c \in class

LeapYearPattern(a, b, c, d) ==
    \/ IsDigit(a) /\ IsDigit(b) /\ In(c, {"2", "4", "6", "8"}) /\ In(d, {"0", "4", "8"})
    \/ IsDigit(a) /\ IsDigit(b) /\ In(c, {"1", "3", "5", "7", "9"}) /\ In(d, {"2", "6"})
    \/ IsDigit(a) /\ IsDigit(b) /\ c = "0" /\ In(d, {"4", "8"})
    \/ In(a, {"0", "2", "4", "6", "8"}) /\ In(b, {"0", "4", "8"}) /\ c = "0" /\ d = "0"
    \/ In(a, {"1", "3", "5", "7", "9"}) /\ In(b, {"2", "6"}) /\ c = "0" /\ d = "0"

\* (0[13578]|1[02])-(0[1-9]|[12]\d|3[01])
Month31Pattern(m1, m2, d1, d2) ==
    /\ \/ m1 = "0" /\ In(m2, {"1", "3", "5", "7", "8"})
       \/ m1 = "1" /\ In(m2, {"0", "2"})
    /\ \/ d1 = "0" /\ IsDigit(d2) /\ d2 # "0"
       \/ In(d1, {"1", "2"}) /\ IsDigit(d2)
       \/ d1 = "3" /\ In(d2, {"0", "1"})

\* (0[469]|11)-(0[1-9]|[12]\d|30)
Month30Pattern(m1, m2, d1, d2) ==
    /\ \/ m1 = "0" /\ In(m2, {"4", "6", "9"})
       \/ m1 = "1" /\ m2 = "1"
    /\ \/ d1 = "0" /\ IsDigit(d2) /\ d2 # "0"
       \/ In(d1, {"1", "2"}) /\ IsDigit(d2)
       \/ d1 = "3" /\ d2 = "0"

\* a February pattern that admits the 29th in every year
FebruaryPattern_29(m1, m2, d1, d2) ==
    /\ m1 = "0" /\ m2 = "2"
    /\ \/ d1 = "0" /\ IsDigit(d2) /\ d2 # "0"
       \/ d1 = "1" /\ IsDigit(d2)
       \/ d1 = "2" /\ IsDigit(d2)

\* (02)-(0[1-9]|1\d|2[0-8])
FebruaryPattern(m1, m2, d1, d2) ==
    /\ m1 = "0" /\ m2 = "2"
    /\ \/ d1 = "0" /\ IsDigit(d2) /\ d2 # "0"
       \/ d1 = "1" /\ IsDigit(d2)
       \/ d1 = "2" /\ IsDigit(d2) /\ ~In(d2, {"9"})

dateRegex(s) ==
    /\ Len(s) = 10
    /\ s[5] = "-"
    /\ s[8] = "-"
    /\ \/ LeapYearPattern(s[1], s[2], s[3], s[4])
          /\ s[6] = "0" /\ s[7] = "2" /\ s[9] = "2" /\ s[10] = "9"
       \/ /\ \A i \in 1..4 : IsDigit(s[i])
          /\ \/ Month31Pattern(s[6], s[7], s[9], s[10])
             \/ Month30Pattern(s[6], s[7], s[9], s[10])
             \/ FebruaryPattern(s[6], s[7], s[9], s[10])

\* C14: for every date string the blog schema accepts (years 0000..0099
\* included) the string formatDate returns shows the year and the month of
\* the argument.
C14_YearAndMonthPreserved ==
    (out.called /\ dateRegex(dateStr)) =>
        /\ ~out.threw
        /\ Len(out.str) >= 9
        /\ SubSeq(out.str, 1, 3) = MonthShort[MonthOf(dateStr)]
        /\ AllDigits(SubSeq(out.str, 9, Len(out.str)))
        /\ DecimalValue(SubSeq(out.str, 9, Len(out.str))) = YearOf(dateStr)

----------------------------------------------------------------------------
(* z.string().url(): the string is a URL when new URL(string) does not      *)
(* throw.  The parser below is the URL parser without a base, over the      *)
(* model's alphabet: lower-case letters, digits, and ":", "/", ".", "-",  *)
(* "+", "?", "#" and the space.                                             *)

Letters ==
    {"a", "b", "c", "d", "e", "f", "g", "h", "i", "j", "k", "l", "m", "n",
     "o", "p", "q", "r", "s", "t", "u", "v", "w", "x", "y", "z"}

IsAlpha(c) == c \in Letters

IsSchemeChar(c) == IsAlpha(c) \/ IsDigit(c) \/ c \in {"+", "-", "."}

\* index of the ":" that ends the scheme, 0 when the string has no scheme
SchemeEnd(s) ==
    IF s = <<>> \/ ~IsAlpha(s[1]) THEN 0
    ELSE LET stops == {i \in 2..Len(s) : ~IsSchemeChar(s[i])}
         IN  IF stops = {} THEN 0
             ELSE LET i == CHOOSE j \in stops : \A k \in stops : j <= k
                  IN  IF s[i] = ":" THEN i ELSE 0

SpecialSchemes ==
    { <<"f", "t", "p">>, <<"f", "i", "l", "e">>, <<"h", "t", "t", "p">>, <<"h", "t", "t", "p", "s">>, <<"w", "s">>, <<"w", "s", "s">> }

RECURSIVE SkipSlashes(_)
SkipSlashes(s) == IF s # <<>> /\ s[1] = "/" THEN SkipSlashes(Tail(s)) ELSE s

\* the authority: up to the first "/", "?" or "#"
Authority(s) ==
    LET ends == {i \in 1..Len(s) : s[i] \in {"/", "?", "#"}}
    IN  IF ends = {} THEN s
        ELSE SubSeq(s, 1, (CHOOSE j \in ends : \A k \in ends : j <= k) - 1)

\* host and port of an authority without credentials
HostOf(a) ==
    LET colons == {i \in 1..Len(a) : a[i] = ":"}
    IN  IF colons = {} THEN a
        ELSE SubSeq(a, 1, (CHOOSE j \in colons : \A k \in colons : j >= k) - 1)

PortOf(a) ==
    LET colons == {i \in 1..Len(a) : a[i] = ":"}
    IN  IF colons = {} THEN <<>>
        ELSE SubSeq(a, (CHOOSE j \in colons : \A k \in colons : j >= k) + 1, Len(a))

IsHostChar(c) == IsAlpha(c) \/ IsDigit(c) \/ c \in {".", "-"}

HostParses(h) == \A i \in 1..Len(h) : IsHostChar(h[i])

PortParses(p) == AllDigits(p) /\ (Len(p) <= 5) /\ DecimalValue(p) <= 65535

\* a parser that takes anything in front of a ":" for a scheme
URLParses_anyColon(str) == \E i \in 1..Len(str) : str[i] = ":"

\* new URL(str) succeeds
URLParses(str) ==
    LET s == TrimEnd(TrimStart(str))
        e == SchemeEnd(s)
        scheme == SubSeq(s, 1, e - 1)
        rest == SubSeq(s, e + 1, Len(s))
    IN  /\ e > 0
        /\ IF scheme \in SpecialSchemes
           THEN LET a == Authority(SkipSlashes(rest))
                IN  /\ HostParses(HostOf(a))
                    /\ PortParses(PortOf(a))
                    /\ (HostOf(a) # <<>> \/ (scheme = <<"f", "i", "l", "e">> /\ a = <<>>))
           ELSE IF Len(rest) >= 2 /\ rest[1] = "/" /\ rest[2] = "/"
           THEN LET a == Authority(SubSeq(rest, 3, Len(rest)))
                IN  HostParses(HostOf(a)) /\ PortParses(PortOf(a))
           ELSE TRUE

----------------------------------------------------------------------------
(* The schemas of content.config.ts *)

\* z.string()
ZodString(v) == v.kind = "string"

\* z.string().date()
ZodStringDate(v) == ZodString(v) /\ dateRegex(v.str)

\* z.string().url()
ZodStringUrl(v) == ZodString(v) /\ URLParses(v.str)

\* z.coerce.number(): a numeral is taken for its number
ZodNumber_coerce(v) ==
    v.kind = "number" \/ (v.kind = "string" /\ v.str # <<>> /\ AllDigits(v.str))

\* z.number()
ZodNumber(v) == v.kind = "number"

\* an array check that looks at the container only
ZodArrayOfString_shallow(v) == v.kind = "array"

\* z.array(z.string())
ZodArrayOfString(v) ==
    v.kind = "array" /\ \A i \in 1..Len(v.items) : ZodString(v.items[i])

\* the elements of a sequence in order, each at its first place only
RECURSIVE Unique(_)
Unique(xs) ==
    IF xs = <<>> THEN <<>>
    ELSE LET init == Unique(SubSeq(xs, 1, Len(xs) - 1))
             last == xs[Len(xs)]
         IN  IF \E i \in 1..Len(init) : init[i] = last THEN init ELSE Append(init, last)

\* a blog schema whose tags are a set: a tag given twice is yielded once
blogSchema_uniqueTags(d) ==
    LET issues ==
            (IF ZodString(d.title) THEN {} ELSE {"title"})
            \cup (IF ZodStringDate(d.date) THEN {} ELSE {"date"})
            \cup (IF ZodArrayOfString(d.tags) THEN {} ELSE {"tags"})
    IN  IF issues = {}
        THEN ParseSuccess([title |-> d.title, date |-> d.date,
                           tags |-> VArr(Unique(d.tags.items))])
        ELSE ParseFailure(issues)

\* a blog schema with .passthrough(): the keys the object does not declare
\* are yielded with the declared ones
blogSchema_passthrough(d) ==
    LET issues ==
            (IF ZodString(d.title) THEN {} ELSE {"title"})
            \cup (IF ZodStringDate(d.date) THEN {} ELSE {"date"})
            \cup (IF ZodArrayOfString(d.tags) THEN {} ELSE {"tags"})
    IN  IF issues = {} THEN ParseSuccess(d) ELSE ParseFailure(issues)

\* blog: z.object({title, date, tags}); a key the object does not declare is
\* stripped from the result
blogSchema(d) ==
    LET issues ==
            (IF ZodString(d.title) THEN {} ELSE {"title"})
            \cup (IF ZodStringDate(d.date) THEN {} ELSE {"date"})
            \cup (IF ZodArrayOfString(d.tags) THEN {} ELSE {"tags"})
    IN  IF issues = {}
        THEN ParseSuccess([title |-> d.title, date |-> d.date, tags |-> d.tags])
        ELSE ParseFailure(issues)

\* a projects schema whose id is z.coerce.string(): the number is yielded
\* as its numeral
projectsSchema_coerceId(d) ==
    LET issues ==
            (IF d.id.kind \in {"number", "string"} THEN {} ELSE {"id"})
            \cup (IF ZodString(d.title) THEN {} ELSE {"title"})
            \cup (IF ZodString(d.description) THEN {} ELSE {"description"})
            \cup (IF ZodString(d.imagePath) THEN {} ELSE {"imagePath"})
            \cup (IF ZodStringUrl(d.repo) THEN {} ELSE {"repo"})
            \cup (IF ZodStringUrl(d.live) THEN {} ELSE {"live"})
    IN  IF issues = {}
        THEN ParseSuccess([id |-> VStr(IF d.id.kind = "number" THEN Decimal(d.id.num) ELSE d.id.str),
                           title |-> d.title,
                           description |-> d.description,
                           imagePath |-> d.imagePath,
                           repo |-> d.repo, live |-> d.live])
        ELSE ParseFailure(issues)

\* projects: z.object({id, title, description, imagePath, repo, live})
projectsSchema(d) ==
    LET issues ==
            (IF ZodNumber(d.id) THEN {} ELSE {"id"})
            \cup (IF ZodString(d.title) THEN {} ELSE {"title"})
            \cup (IF ZodString(d.description) THEN {} ELSE {"description"})
            \cup (IF ZodString(d.imagePath) THEN {} ELSE {"imagePath"})
            \cup (IF ZodStringUrl(d.repo) THEN {} ELSE {"repo"})
            \cup (IF ZodStringUrl(d.live) THEN {} ELSE {"live"})
    IN  IF issues = {}
        THEN ParseSuccess([id |-> d.id, title |-> d.title,
                           description |-> d.description,
                           imagePath |-> d.imagePath,
                           repo |-> d.repo, live |-> d.live])
        ELSE ParseFailure(issues)

----------------------------------------------------------------------------
(* Records the schemas are exercised with *)

TextT == <<"T">>
TagR == <<"r">>
TagQ == <<"q">>
SlugS == <<"s">>
GoodDate == Jun12_2023_In
Month13 == <<"2", "0", "2", "3", "-", "1", "3", "-", "0", "1">>

MoreDateStrings ==
    { <<"2", "0", "2", "3", "0", "6", "1", "2">>,
      <<"2", "0", "2", "3", "-", "0", "6", "-", "1", "2", "a">>,
      <<"2", "0", "2", "3", "-", "0", "6", "-", "1", "2", " ">>,
      <<"2", "3", "-", "0", "6", "-", "1", "2">>,
      <<"2", "0", "2", "3", "-", "0", "6", "-", "0", "1", "2">>,
      <<"2", "0", "2", "3", ".", "0", "6", ".", "1", "2">> }

DateStrings == FormatInputs \cup MoreDateStrings

TitleValues == {VUndef, VNum(1), VStr(<<>>), VStr(TextT)}

TagsValues ==
    { VUndef, VStr(TagR), VNum(1), VArr(<<>>), VArr(<<VStr(TagR)>>),
      VArr(<<VNum(1)>>), VArr(<<VStr(TagR), VNum(1)>>),
      VArr(<<VStr(TagR), VStr(TagR)>>),
      VArr(<<VStr(TagR), VStr(TagQ)>>), VArr(<<VStr(TagQ), VStr(TagR), VStr(TagQ)>>) }

BlogRecords ==
    { [title |-> VStr(TextT), date |-> VStr(s), tags |-> VArr(<<VStr(TagR)>>),
       slug |-> VStr(SlugS)] : s \in DateStrings }
    \cup
    { [title |-> t, date |-> d, tags |-> g, slug |-> u] :
        t \in TitleValues,
        d \in {VUndef, VNum(2023), VStr(GoodDate), VStr(Month13)},
        g \in TagsValues,
        u \in {VUndef, VStr(SlugS)} }

UrlGood == <<"h", "t", "t", "p", "s", ":", "/", "/", "x", ".", "y", "/", "a">>
NotAUrl == <<"n", "o", "t", "-", "a", "-", "u", "r", "l">>

UrlStrings ==
    { UrlGood, NotAUrl,
      <<>>,
      <<"/", "a", "/", "b">>,
      <<"x", ".", "y", "/", "a">>,
      <<"a", "/", "b">>,
      <<"h", "t", "t", "p", "s", ":", "/", "/">>,
      <<"h", "t", "t", "p", "s", ":", "/", "/", "x", " ", "y">>,
      <<"h", "t", "t", "p", "s", ":", "/", "/", "x", ".", "y", ":", "8", "0", "/", "a">>,
      <<"h", "t", "t", "p", "s", ":", "/", "/", "x", ".", "y", ":", "a", "/">>,
      <<"m", "a", "i", "l", "t", "o", ":", "a">>,
      <<"h", "t", "t", "p", "s", ":", "x", ".", "y">>,
      <<" ", "h", "t", "t", "p", "s", ":", "/", "/", "x", ".", "y">>,
      <<"h", "t", "t", "p", "s", ":", "/", "/", "x", ".", "y", "/", "a", " ", "b">>,
      <<"/", "/", "x", ".", "y", "/", "a">>,
      <<"/", "a", ":", "b">>, <<"h", "t", "t", "p", "s", ":">>, <<"h", "t", "t", "p", ":", "/", "/", "/">>,
      <<"a", ".", "b", ":", "c">> }

UrlValues == {VUndef, VNum(1)} \cup {VStr(s) : s \in UrlStrings}

TextValues == {VUndef, VNum(1), VStr(<<>>), VStr(TextT)}

ProjectRecords ==
    { [id |-> i, title |-> t, description |-> t2, imagePath |-> VStr(TextT),
       repo |-> r, live |-> l, slug |-> VUndef] :
        i \in {VUndef, VNum(1), VStr(<<"1">>)},
        t \in TextValues, t2 \in {VStr(<<>>), VStr(TextT)},
        r \in UrlValues, l \in UrlValues }
    \cup
    { [id |-> VNum(1), title |-> VStr(TextT), description |-> t2,
       imagePath |-> p, repo |-> VStr(UrlGood), live |-> VStr(UrlGood),
       slug |-> u] :
        t2 \in TextValues, p \in TextValues, u \in {VUndef, VStr(SlugS)} }

----------------------------------------------------------------------------
(* Specification of the schemas: one record, validated *)

InitSchema ==
    /\ \/ coll = "blog" /\ raw \in BlogRecords
       \/ coll = "projects" /\ raw \in ProjectRecords
    /\ parsed = NotParsed
    /\ FormatIdle
    /\ LoadIdle
    /\ EntryIdle

ParseBlog ==
    /\ coll = "blog"
    /\ ~parsed.done
    /\ parsed' = blogSchema(raw)
    /\ UNCHANGED <<contents, fmtVars, coll, raw, projectsVars, blogVars>>

ParseProject ==
    /\ coll = "projects"
    /\ ~parsed.done
    /\ parsed' = projectsSchema(raw)
    /\ UNCHANGED <<contents, fmtVars, coll, raw, projectsVars, blogVars>>

NextSchema == ParseBlog \/ ParseProject

SpecSchema == InitSchema /\ [][NextSchema]_vars

----------------------------------------------------------------------------
(* Properties of the schemas *)

OtherBlogFieldsGood(d) == ZodString(d.title) /\ ZodArrayOfString(d.tags)

\* C5: the blog schema rejects every date string that is not YYYY-MM-DD
\* syntax or names no real calendar date (month 13, day 0, day 31 of a
\* 30-day month, 29 February of a common year), and accepts every real
\* calendar date written YYYY-MM-DD.
C5_DateIsCalendarDate ==
    (coll = "blog" /\ parsed.done /\ raw.date.kind = "string") =>
        IF IsCalendarDate(raw.date.str)
        THEN /\ "date" \notin parsed.issues
             /\ OtherBlogFieldsGood(raw) => parsed.success
        ELSE /\ "date" \in parsed.issues
             /\ ~parsed.success

C5_Witness ==
    /\ coll = "blog"
    /\ parsed.done
    /\ raw.date = VStr(Month13)
    /\ OtherBlogFieldsGood(raw)
    /\ ~parsed.success
    /\ parsed.issues = {"date"}

\* a URL string as the URL standard writes one: a scheme and ":", no white
\* space anywhere; after http, https, ftp, ws and wss "//", a host name,
\* an optional port and a path; after any other scheme a path
NoSpace(s) == \A i \in 1..Len(s) : s[i] # " "

HasPrefix(s, p) == Len(s) >= Len(p) /\ SubSeq(s, 1, Len(p)) = p

IsHttpScheme(sc) == sc \in {<<"h", "t", "t", "p">>, <<"h", "t", "t", "p", "s">>}

\* the text before the first ":" when it is a scheme, else the empty text
SchemeText(s) ==
    IF \E i \in 2..Len(s) :
          /\ s[i] = ":"
          /\ IsAlpha(s[1])
          /\ \A j \in 2..(i - 1) : IsSchemeChar(s[j])
    THEN LET i == CHOOSE k \in 2..Len(s) :
                      s[k] = ":" /\ \A j \in 1..(k - 1) : s[j] # ":"
         IN  SubSeq(s, 1, i - 1)
    ELSE <<>>

\* a host name: labels of letters, digits and hyphens, each begun by a letter
IsHostName(h) ==
    /\ h # <<>>
    /\ HostParses(h)
    /\ IsAlpha(h[1])
    /\ \A i \in 1..Len(h) : h[i] = "." => (i < Len(h) /\ IsAlpha(h[i + 1]))

IsAbsoluteUrlString(s) ==
    /\ NoSpace(s)
    /\ SchemeText(s) # <<>>
    /\ LET sc == SchemeText(s)
           rest == SubSeq(s, Len(sc) + 2, Len(s))
       IN  IF sc = <<"f", "i", "l", "e">> THEN HasPrefix(rest, <<"/", "/", "/">>)
           ELSE IF sc \in SpecialSchemes
           THEN /\ HasPrefix(rest, <<"/", "/">>)
                /\ LET a == Authority(SubSeq(rest, 3, Len(rest)))
                   IN  IsHostName(HostOf(a)) /\ PortParses(PortOf(a))
           ELSE ~HasPrefix(rest, <<"/", "/">>)

IsAbsoluteUrlValue(v) == v.kind = "string" /\ IsAbsoluteUrlString(v.str)

\* no scheme at all (a relative reference), white space around it aside
HasNoScheme(v) ==
    v.kind # "string" \/ SchemeText(TrimEnd(TrimStart(v.str))) = <<>>

\* http: or https: followed by nothing but slashes
HasNoHost(v) ==
    /\ v.kind = "string"
    /\ LET s == TrimEnd(TrimStart(v.str))
       IN  /\ IsHttpScheme(SchemeText(s))
           /\ \A i \in (Len(SchemeText(s)) + 2)..Len(s) : s[i] = "/"

C9_EmptyTextRejected ==
    /\ (coll = "blog" /\ parsed.done /\ raw.title = VStr(<<>>)) => ~parsed.success
    /\ (coll = "projects" /\ parsed.done
          /\ (raw.title = VStr(<<>>) \/ raw.description = VStr(<<>>))) =>
          ~parsed.success

----------------------------------------------------------------------------
(* The data store of a collection: its entries in insertion order, one per *)
(* id.                                                                     *)

StoreIds(store) == {store[i].id : i \in 1..Len(store)}

StoreHas(store, id) == id \in StoreIds(store)

StoreGet(store, id) == store[CHOOSE i \in 1..Len(store) : store[i].id = id]

\* store.set(entry): an entry of the same id is replaced where it stands
StoreSet(store, entry) ==
    IF StoreHas(store, entry.id)
    THEN [i \in 1..Len(store) |-> IF store[i].id = entry.id THEN entry ELSE store[i]]
    ELSE Append(store, entry)

\* store.clear()
StoreClear(store) == <<>>

\* a parseData whose error tells the collection alone
parseData_bare(collection, id, filePath, schemaResult) ==
    [success |-> schemaResult.success,
     data |-> schemaResult.data,
     error |-> IF schemaResult.success THEN NoFailure
               ELSE [coll |-> collection, id |-> <<>>, file |-> <<>>, issues |-> {}]]

\* parseData({id, data, filePath}): the collection's schema applied to the
\* data; a failure is thrown as an error that names the collection, the
\* entry's id and the fields that failed, and points at the file
parseData(collection, id, filePath, schemaResult) ==
    [success |-> schemaResult.success,
     data |-> schemaResult.data,
     error |-> IF schemaResult.success THEN NoFailure
               ELSE [coll |-> collection, id |-> id, file |-> filePath,
                     issues |-> schemaResult.issues]]

----------------------------------------------------------------------------
(* projects: file('./src/content/projects/projects.json')                  *)

\* x.toString() of an id
ToIdString(v) ==
    IF v.kind = "number" THEN Decimal(v.num)
    ELSE IF v.kind = "string" THEN v.str
    ELSE <<>>

\* (rawItem.id ?? rawItem.slug)?.toString(); empty when the item has neither
itemId(item) ==
    ToIdString(IF item.id.kind # "undefined" THEN item.id ELSE item.slug)

ProjectsJsonPath ==
    <<"s", "r", "c", "/", "c", "o", "n", "t", "e", "n", "t", "/",
      "p", "r", "o", "j", "e", "c", "t", "s", "/",
      "p", "r", "o", "j", "e", "c", "t", "s", ".", "j", "s", "o", "n">>

\* a loop that takes an id only once: an item whose id an earlier item of
\* the array has is an error
RECURSIVE fileSync_uniqueIds(_, _, _)
fileSync_uniqueIds(items, i, st) ==
    IF i > Len(items) \/ st.threw THEN st
    ELSE LET item == items[i]
             id == itemId(item)
             p == parseData("projects", id, ProjectsJsonPath, projectsSchema(item))
         IN  IF id = <<>> THEN fileSync_uniqueIds(items, i + 1, st)
             ELSE IF ~p.success
             THEN [st EXCEPT !.threw = TRUE, !.failed = p.error]
             ELSE IF StoreHas(st.store, id)
             THEN [st EXCEPT !.threw = TRUE,
                             !.failed = [coll |-> "projects", id |-> id,
                                         file |-> ProjectsJsonPath, issues |-> {"id"}]]
             ELSE fileSync_uniqueIds(items, i + 1,
                           [st EXCEPT !.store = StoreSet(@, [id |-> id, data |-> p.data])])

\* the loop over the array: an item without id is reported and passed
\* over; an item whose id an earlier item has is reported and takes the
\* earlier one's place; a validation failure throws and ends the loop
RECURSIVE fileSync(_, _, _)
fileSync(items, i, st) ==
    IF i > Len(items) \/ st.threw THEN st
    ELSE LET item == items[i]
             id == itemId(item)
             p == parseData("projects", id, ProjectsJsonPath, projectsSchema(item))
         IN  IF id = <<>> THEN fileSync(items, i + 1, st)
             ELSE IF ~p.success
             THEN [st EXCEPT !.threw = TRUE, !.failed = p.error]
             ELSE fileSync(items, i + 1,
                           [st EXCEPT !.store = StoreSet(@, [id |-> id, data |-> p.data])])

\* a loader that keeps what the store holds and adds an entry per item
fileLoad_appending(exists, store, items) ==
    LET r == fileSync(items, 1, [store |-> <<>>, threw |-> FALSE, failed |-> NoFailure])
    IN  IF ~exists THEN [store |-> store, threw |-> FALSE, failed |-> NoFailure]
        ELSE [r EXCEPT !.store = store \o r.store]

\* load(): a file that does not exist is reported to the log and the load
\* returns, the store as it was; else the store is cleared, then filled
\* from the array
fileLoad(exists, store, items) ==
    IF ~exists THEN [store |-> store, threw |-> FALSE, failed |-> NoFailure]
    ELSE fileSync(items, 1, [store |-> StoreClear(store), threw |-> FALSE, failed |-> NoFailure])

----------------------------------------------------------------------------
(* blog: glob({pattern: '**/*.(md|mdx)', base: './src/content/blog'})      *)

\* paths from the base directory: two posts, a post whose path names the
\* directory of another's index file, a file of another extension, a dot
\* file
PostMd == <<"p", "o", "s", "t", ".", "m", "d">>
WebIndexMdx == <<"w", "e", "b", "/", "i", "n", "d", "e", "x", ".", "m", "d", "x">>
WebMd == <<"w", "e", "b", ".", "m", "d">>
NotesTxt == <<"n", "o", "t", "e", "s", ".", "t", "x", "t">>
DotWipMd == <<".", "w", "i", "p", ".", "m", "d">>

Paths == {PostMd, WebIndexMdx, WebMd, NotesTxt, DotWipMd}

\* index of the last c in s, 0 when s has none
LastIndexOf(s, c) ==
    LET at == {i \in 1..Len(s) : s[i] = c}
    IN  IF at = {} THEN 0 ELSE CHOOSE i \in at : \A j \in at : j <= i

HasSuffix(s, suffix) ==
    Len(s) >= Len(suffix) /\ SubSeq(s, Len(s) - Len(suffix) + 1, Len(s)) = suffix

\* the file name of a path
BaseName(path) == SubSeq(path, LastIndexOf(path, "/") + 1, Len(path))

\* no segment of the path begins with a dot (the glob is run without the
\* dot option, so neither ** nor * takes such a segment)
RECURSIVE NoDotSegment(_)
NoDotSegment(path) ==
    /\ path # <<>>
    /\ path[1] # "."
    /\ path[1] # "/"
    /\ LET slash == {i \in 1..Len(path) : path[i] = "/"}
       IN  slash = {} \/ NoDotSegment(SubSeq(path, (CHOOSE i \in slash : \A j \in slash : i <= j) + 1,
                                             Len(path)))

\* a pattern '**/*.md'
GlobMatches_mdOnly(path) ==
    /\ NoDotSegment(path)
    /\ HasSuffix(BaseName(path), <<".", "m", "d">>)

\* pattern '**/*.(md|mdx)': a file at any depth whose name ends in .md or
\* .mdx
GlobMatches(path) ==
    /\ NoDotSegment(path)
    /\ \/ HasSuffix(BaseName(path), <<".", "m", "d">>)
       \/ HasSuffix(BaseName(path), <<".", "m", "d", "x">>)

\* path.extname: from the last dot of the file name, empty when the name
\* has no dot past its first character
ExtName(path) ==
    LET name == BaseName(path)
        dot == LastIndexOf(name, ".")
    IN  IF dot <= 1 THEN <<>> ELSE SubSeq(name, dot, Len(name))

\* the id a path gives: the path from the base without extension, an
\* index file named by its directory.  (The segments are slugified, which
\* leaves the lower-case letters of the model's paths as they are.)
PathId(path) ==
    LET withoutFileExt == SubSeq(path, 1, Len(path) - Len(ExtName(path)))
        index == <<"/", "i", "n", "d", "e", "x">>
    IN  IF HasSuffix(withoutFileExt, index)
        THEN SubSeq(withoutFileExt, 1, Len(withoutFileExt) - Len(index))
        ELSE withoutFileExt

NoFile == [present |-> FALSE, data |-> <<>>]
File(d) == [present |-> TRUE, data |-> d]

\* an id taken from the path alone
generateId_pathOnly(path, data) == PathId(path)

\* generateId: the frontmatter's slug when it has one, else from the path
generateId(path, data) ==
    IF data.slug.kind = "string" /\ data.slug.str # <<>> THEN data.slug.str
    ELSE PathId(path)

\* the files are synced one after another in the order their reads end.
\* A file whose entry is stored with the same digest is not parsed again; a
\* validation failure throws.  touched collects the ids seen.
RECURSIVE globSync(_, _, _, _)
globSync(dir, order, i, st) ==
    IF i > Len(order) \/ st.threw THEN st
    ELSE LET path == order[i]
             data == dir[path].data
             id == generateId(path, data)
             seen == [st EXCEPT !.touched = @ \cup {id}]
             p == parseData("blog", id, path, blogSchema(data))
         IN  IF StoreHas(st.store, id) /\ StoreGet(st.store, id).digest = data
             THEN globSync(dir, order, i + 1, seen)
             ELSE IF ~p.success
             THEN [seen EXCEPT !.threw = TRUE, !.failed = p.error]
             ELSE globSync(dir, order, i + 1,
                     [seen EXCEPT !.store =
                         StoreSet(@, [id |-> id, data |-> p.data,
                                      digest |-> data, filePath |-> path])])

\* load(): a base directory that does not exist is reported to the log as
\* a warning and the load goes on with no file; a directory that exists
\* and holds no matched file is reported and the load returns, the store
\* as it was.  Else every matched file is synced, then the entries no file
\* gave are deleted from the store.
globLoad(exists, store, dir, order) ==
    LET r == globSync(dir, order, 1,
                      [store |-> store, threw |-> FALSE, failed |-> NoFailure,
                       touched |-> {}])
    IN  IF exists /\ order = <<>> THEN r
        ELSE IF r.threw THEN r
        ELSE [r EXCEPT !.store = SelectSeq(r.store, LAMBDA e : e.id \in r.touched)]

\* the files the glob finds
Matched(dir) == {path \in Paths : dir[path].present /\ GlobMatches(path)}

Orders(dir) ==
    {o \in UNION {[1..n -> Matched(dir)] : n \in {Cardinality(Matched(dir))}} :
        \A i, j \in 1..Len(o) : i # j => o[i] # o[j]}

\* what a load hands to its caller: the entries when it ended well, an error
\* and no entry when it threw
Outcome(n, r, exists, src) ==
    [n |-> n,
     status |-> IF r.threw THEN "error" ELSE "ok",
     entries |-> IF r.threw THEN <<>> ELSE r.store,
     failed |-> r.failed,
     exists |-> exists,
     src |-> src]

----------------------------------------------------------------------------
(* Source files the loaders are exercised with *)

MaxProjects == 2
MaxLoads == 2

TextU == <<"U">>
UrlLenient == <<"h", "t", "t", "p", "s", ":", "x", ".", "y">>

GoodProject(i, t) ==
    [id |-> VNum(i), title |-> VStr(t), description |-> VStr(TextT),
     imagePath |-> VStr(TextT), repo |-> VStr(UrlGood), live |-> VStr(UrlGood),
     slug |-> VUndef]

ProjectItems ==
    { GoodProject(1, TextT), GoodProject(2, TextT), GoodProject(1, TextU),
      [GoodProject(1, TextT) EXCEPT !.id = VUndef],
      [GoodProject(1, TextT) EXCEPT !.id = VUndef, !.slug = VStr(SlugS)],
      [GoodProject(1, TextT) EXCEPT !.id = VStr(<<"1">>)],
      [GoodProject(2, TextT) EXCEPT !.repo = VStr(NotAUrl)],
      [GoodProject(2, TextT) EXCEPT !.live = VStr(NotAUrl)],
      [GoodProject(2, TextT) EXCEPT !.title = VUndef],
      [GoodProject(2, TextT) EXCEPT !.title = VStr(<<>>)],
      [GoodProject(2, TextT) EXCEPT !.repo = VStr(UrlLenient)] }

\* what an edit writes in the place of an element
EditedItems ==
    { GoodProject(1, TextT), GoodProject(2, TextU),
      [GoodProject(1, TextT) EXCEPT !.id = VUndef],
      [GoodProject(2, TextT) EXCEPT !.repo = VStr(NotAUrl)] }

ProjectFiles == UNION {[1..n -> ProjectItems] : n \in 0..MaxProjects}

GoodPost(t, u) ==
    [title |-> VStr(t), date |-> VStr(GoodDate), tags |-> VArr(<<VStr(TagR)>>),
     slug |-> u]

Frontmatters ==
    { GoodPost(TextT, VUndef), GoodPost(TextT, VStr(SlugS)), GoodPost(TextU, VStr(SlugS)),
      [GoodPost(TextT, VUndef) EXCEPT !.title = VUndef],
      [GoodPost(TextT, VUndef) EXCEPT !.title = VStr(<<>>)],
      [GoodPost(TextT, VUndef) EXCEPT !.tags = VUndef],
      [GoodPost(TextT, VUndef) EXCEPT !.tags = VStr(TagR)],
      [GoodPost(TextT, VUndef) EXCEPT !.tags = VArr(<<VStr(TagR), VNum(1)>>)],
      [GoodPost(TextT, VUndef) EXCEPT !.tags = VArr(<<VStr(TagR), VStr(TagR)>>)],
      [GoodPost(TextT, VUndef) EXCEPT !.date = VStr(Month13)] }

\* what a path of the directory may hold
PostFiles == {NoFile} \cup {File(d) : d \in Frontmatters}

WebIndexFiles ==
    { NoFile, File(GoodPost(TextT, VUndef)), File(GoodPost(TextU, VStr(SlugS))),
      File([GoodPost(TextT, VUndef) EXCEPT !.date = VStr(Month13)]) }

WebFiles == {NoFile, File(GoodPost(TextT, VUndef)), File(GoodPost(TextT, VStr(SlugS)))}

NotesFiles == {NoFile, File(GoodPost(TextT, VUndef))}

DotWipFiles == {NoFile, File([GoodPost(TextT, VUndef) EXCEPT !.title = VUndef])}

\* what an edit leaves at a path: no file, or a file rewritten
EditedFiles ==
    { NoFile, File(GoodPost(TextT, VUndef)), File(GoodPost(TextU, VStr(SlugS))),
      File([GoodPost(TextT, VUndef) EXCEPT !.title = VUndef]) }

Dir(post, webIndex, web, notes, dotWip) ==
    (PostMd :> post) @@ (WebIndexMdx :> webIndex) @@ (WebMd :> web)
        @@ (NotesTxt :> notes) @@ (DotWipMd :> dotWip)

BlogDirs ==
    {Dir(a, b, c, d, e) : a \in PostFiles, b \in WebIndexFiles, c \in WebFiles,
                          d \in NotesFiles, e \in DotWipFiles}

NoBlogFiles == [path \in Paths |-> NoFile]

ShippedProjects == <<GoodProject(1, TextT)>>

ShippedBlog ==
    Dir(File(GoodPost(TextT, VStr(SlugS \o PathId(PostMd)))),
        File(GoodPost(TextT, VStr(SlugS \o PathId(WebIndexMdx)))),
        NoFile, NoFile, NoFile)

----------------------------------------------------------------------------
(* Specification of the loaders: the source of one collection is any of    *)
(* the sources above while the other's is missing, or both hold the        *)
(* well-formed records shipped; each collection is loaded, and loaded      *)
(* again, and between two loads a source is edited or removed.             *)

InitLoad ==
    /\ \/ /\ projectsExists = TRUE /\ projectsJson \in ProjectFiles
          /\ blogExists = FALSE /\ blogDir = NoBlogFiles
       \/ /\ projectsExists = FALSE /\ projectsJson = <<>>
          /\ blogExists = TRUE /\ blogDir \in BlogDirs
       \/ /\ projectsExists = TRUE /\ projectsJson = ShippedProjects
          /\ blogExists = TRUE /\ blogDir = ShippedBlog
    /\ projectsStore = <<>>
    /\ projectsLoad = NotLoaded
    /\ projectsPrev = NotLoaded
    /\ blogStore = <<>>
    /\ blogLoad = NotLoaded
    /\ blogPrev = NotLoaded
    /\ FormatIdle
    /\ SchemaIdle
    /\ EntryIdle

LoadProjects ==
    /\ projectsLoad.n < MaxLoads
    /\ LET r == fileLoad(projectsExists, projectsStore, projectsJson)
       IN  /\ projectsStore' = r.store
           /\ projectsLoad' = Outcome(projectsLoad.n + 1, r, projectsExists, projectsJson)
    /\ projectsPrev' = projectsLoad
    /\ UNCHANGED <<contents, fmtVars, schemaVars, projectsExists, projectsJson, blogVars>>

LoadBlog ==
    /\ blogLoad.n < MaxLoads
    /\ \E order \in Orders(blogDir) :
          LET r == globLoad(blogExists, blogStore, blogDir, order)
          IN  /\ blogStore' = r.store
              /\ blogLoad' = Outcome(blogLoad.n + 1, r, blogExists, blogDir)
    /\ blogPrev' = blogLoad
    /\ UNCHANGED <<contents, fmtVars, schemaVars, projectsVars, blogExists, blogDir>>

\* the source of a collection may change between a load and the next one,
\* once: after a load, before the last, while the source is as that load
\* and the one before it read it
ProjectsMayChange ==
    /\ projectsExists
    /\ projectsLoad.n >= 1
    /\ projectsLoad.n < MaxLoads
    /\ projectsLoad.exists /\ projectsLoad.src = projectsJson
    /\ projectsLoad.n >= 2 => projectsPrev.src = projectsLoad.src

BlogMayChange ==
    /\ blogExists
    /\ blogLoad.n >= 1
    /\ blogLoad.n < MaxLoads
    /\ blogLoad.exists /\ blogLoad.src = blogDir
    /\ blogLoad.n >= 2 => blogPrev.src = blogLoad.src

\* an element of projects.json is rewritten
EditProjects ==
    /\ ProjectsMayChange
    /\ \E i \in 1..Len(projectsJson), item \in EditedItems :
          /\ item # projectsJson[i]
          /\ projectsJson' = [projectsJson EXCEPT ![i] = item]
    /\ UNCHANGED <<contents, fmtVars, schemaVars, projectsExists, projectsStore, projectsLoad,
                   projectsPrev, blogVars>>

\* projects.json is deleted
RemoveProjectsJson ==
    /\ ProjectsMayChange
    /\ projectsExists' = FALSE
    /\ projectsJson' = <<>>
    /\ UNCHANGED <<contents, fmtVars, schemaVars, projectsStore, projectsLoad, projectsPrev,
                   blogVars>>

\* a post's file is rewritten, created or deleted
EditBlog ==
    /\ BlogMayChange
    /\ \E path \in {p \in Paths : GlobMatches(p)}, f \in EditedFiles :
          /\ f # blogDir[path]
          /\ blogDir' = [blogDir EXCEPT ![path] = f]
    /\ UNCHANGED <<contents, fmtVars, schemaVars, projectsVars, blogExists, blogStore, blogLoad,
                   blogPrev>>

\* the base directory is deleted with all it holds
RemoveBlogDir ==
    /\ BlogMayChange
    /\ blogExists' = FALSE
    /\ blogDir' = NoBlogFiles
    /\ UNCHANGED <<contents, fmtVars, schemaVars, projectsVars, blogStore, blogLoad, blogPrev>>

NextLoad ==
    \/ LoadProjects
    \/ LoadBlog
    \/ EditProjects
    \/ RemoveProjectsJson
    \/ EditBlog
    \/ RemoveBlogDir

SpecLoad == InitLoad /\ [][NextLoad]_vars

----------------------------------------------------------------------------
(* The frontmatter of a Markdown file.  The glob loader hands the text of *)
(* each matched file to the Markdown entry type, which takes the          *)
(* frontmatter from the head of the text and reads it as YAML; the        *)
(* collection's schema is applied to what was read.  A text is a sequence *)
(* of lines.                                                              *)

Fence == <<"-", "-", "-">>

IsBlankLine(line) == \A i \in 1..Len(line) : IsWhiteSpace(line[i])

\* further kinds of value a YAML scalar is read as
VNull == [kind |-> "null", str |-> <<>>, num |-> 0, items |-> <<>>]
VBool(s) == [kind |-> "boolean", str |-> s, num |-> 0, items |-> <<>>]
VDate(s) == [kind |-> "date", str |-> s, num |-> 0, items |-> <<>>]

\* the line the frontmatter opens at: the fence at the start of the text,
\* or at the start of the first line that is not white space; 0 when the
\* text has no such line
OpeningLine(lines) ==
    LET nonBlank == {i \in 1..Len(lines) : ~IsBlankLine(lines[i])}
        k == CHOOSE i \in nonBlank : \A j \in nonBlank : i <= j
    IN  IF nonBlank # {} /\ HasPrefix(lines[k], Fence) THEN k ELSE 0

\* the lines after line k that begin with the fence
FencesAfter(lines, k) == {j \in (k + 1)..Len(lines) : HasPrefix(lines[j], Fence)}

\* the text between line k's fence and line j
Between(lines, k, j) ==
    <<SubSeq(lines[k], Len(Fence) + 1, Len(lines[k]))>> \o SubSeq(lines, k + 1, j - 1)

NoFrontmatter == [found |-> FALSE, lines |-> <<>>]

\* an extraction that runs to the last fence of the text
extractFrontmatter_greedy(lines) ==
    LET k == OpeningLine(lines)
        closing == FencesAfter(lines, k)
        j == CHOOSE i \in closing : \A h \in closing : h <= i
    IN  IF k = 0 \/ closing = {} THEN NoFrontmatter
        ELSE [found |-> TRUE, lines |-> Between(lines, k, j)]

\* extractFrontmatter: from the opening fence to the first later line
\* that begins with the fence; nothing when the text does not open with a
\* fence or the fence is not closed
extractFrontmatter(lines) ==
    LET k == OpeningLine(lines)
        closing == FencesAfter(lines, k)
        j == CHOOSE i \in closing : \A h \in closing : i <= h
    IN  IF k = 0 \/ closing = {} THEN NoFrontmatter
        ELSE [found |-> TRUE, lines |-> Between(lines, k, j)]

\* YAML, for the documents of the model: each line is blank, a comment, a
\* pair "key: value" that is not indented, or plain text.

IsComment(line) == line # <<>> /\ line[1] = "#"

\* where the key of a pair ends: the first colon that a space or the end
\* of the line follows; 0 when the line is no pair
ColonAt(line) ==
    LET colons == {i \in 1..Len(line) :
                      line[i] = ":" /\ (i = Len(line) \/ line[i + 1] = " ")}
        c == CHOOSE i \in colons : \A j \in colons : i <= j
    IN  IF colons = {} \/ line[1] = " " THEN 0
        ELSE IF c = 1 THEN 0 ELSE c

IsPair(line) == ColonAt(line) > 0

KeyOf(line) == TrimEnd(SubSeq(line, 1, ColonAt(line) - 1))

Trim(s) == TrimEnd(TrimStart(s))

IsQuoted(t) == Len(t) >= 2 /\ t[1] = t[Len(t)] /\ t[1] \in {"'", "\""}

\* a scalar that is not a collection: quoted text is a string; plain text
\* is null, a boolean, an integer, a timestamp (a Date) or a string
Scalar(text) ==
    LET t == Trim(text)
    IN  IF IsQuoted(t) THEN VStr(SubSeq(t, 2, Len(t) - 1))
        ELSE IF t = <<>> \/ t = <<"~">> \/ t = <<"n", "u", "l", "l">> THEN VNull
        ELSE IF t \in {<<"t", "r", "u", "e">>, <<"f", "a", "l", "s", "e">>} THEN VBool(t)
        ELSE IF AllDigits(t) THEN VNum(DecimalValue(t))
        ELSE IF IsYmdSyntax(t) THEN VDate(t)
        ELSE VStr(t)

\* the items of a flow sequence: the text between the brackets, split at
\* the commas
RECURSIVE FlowItems(_, _, _, _)
FlowItems(s, i, cur, acc) ==
    IF i > Len(s) THEN (IF Trim(cur) = <<>> /\ acc = <<>> THEN acc ELSE Append(acc, Scalar(cur)))
    ELSE IF s[i] = "," THEN FlowItems(s, i + 1, <<>>, Append(acc, Scalar(cur)))
    ELSE FlowItems(s, i + 1, Append(cur, s[i]), acc)

IsFlowSequence(t) == Len(t) >= 2 /\ t[1] = "[" /\ t[Len(t)] = "]"

YamlValue(text) ==
    LET t == Trim(text)
    IN  IF IsFlowSequence(t) THEN VArr(FlowItems(SubSeq(t, 2, Len(t) - 1), 1, <<>>, <<>>))
        ELSE Scalar(t)

ValueOf(line) == YamlValue(SubSeq(line, ColonAt(line) + 1, Len(line)))

\* the keys of a frontmatter the loader and the schema read, as written
KeyText ==
    [title |-> <<"t", "i", "t", "l", "e">>,
     date |-> <<"d", "a", "t", "e">>,
     tags |-> <<"t", "a", "g", "s">>,
     slug |-> <<"s", "l", "u", "g">>]

\* frontmatter {}: no key has a value
EmptyFrontmatter == [f \in DOMAIN KeyText |-> VUndef]

\* yaml.load: a mapping when every line of content is a pair, each key
\* once; text apart from a mapping is not an object and gives the empty
\* frontmatter; pairs mixed with plain text, or a key given twice, throw
yamlLoad(lines) ==
    LET content == SelectSeq(lines, LAMBDA l : ~IsBlankLine(l) /\ ~IsComment(l))
        pairs == SelectSeq(content, IsPair)
        twice == \E i, j \in 1..Len(pairs) : i # j /\ KeyOf(pairs[i]) = KeyOf(pairs[j])
        at(f) == {i \in 1..Len(pairs) : KeyOf(pairs[i]) = KeyText[f]}
    IN  IF pairs = <<>> THEN [threw |-> FALSE, data |-> EmptyFrontmatter]
        ELSE IF Len(pairs) < Len(content) \/ twice
        THEN [threw |-> TRUE, data |-> EmptyFrontmatter]
        ELSE [threw |-> FALSE,
              data |-> [f \in DOMAIN KeyText |->
                          IF at(f) = {} THEN VUndef
                          ELSE ValueOf(pairs[CHOOSE i \in at(f) : TRUE])]]

\* parseFrontmatter: the frontmatter of a text, empty when the text has
\* none
parseFrontmatter(lines) ==
    LET rawFrontmatter == extractFrontmatter(lines)
    IN  IF ~rawFrontmatter.found THEN [threw |-> FALSE, data |-> EmptyFrontmatter]
        ELSE yamlLoad(rawFrontmatter.lines)

----------------------------------------------------------------------------
(* The posts of the repository.  Of a body, the lines that matter to the  *)
(* frontmatter are kept; no line left out begins with the fence.          *)

\* concept-to-scene-3d-react.md: lines 1-8, 339-340 and 342-350
ConceptToScene3dReactMd ==
    << <<"-", "-", "-">>,
       <<"t", "i", "t", "l", "e", ":", " ", "'", "F", "r", "o", "m", " ", "C", "o", "n", "c", "e", "p", "t", " ", "t", "o", " ", "S", "c", "e", "n", "e", ":", " ", "3", "D", " ", "i", "n", " ", "R", "e", "a", "c", "t", "'">>,
       <<"d", "a", "t", "e", ":", " ", "'", "2", "0", "2", "3", "-", "0", "6", "-", "1", "2", "'">>,
       <<"t", "a", "g", "s", ":", " ", "[", "'", "r", "e", "a", "c", "t", "'", ",", " ", "'", "r", "e", "a", "c", "t", "-", "t", "h", "r", "e", "e", "-", "f", "i", "b", "e", "r", "'", "]">>,
       <<"s", "l", "u", "g", ":", " ", "'", "c", "o", "n", "c", "e", "p", "t", "-", "t", "o", "-", "s", "c", "e", "n", "e", "-", "3", "d", "-", "r", "e", "a", "c", "t", "'">>,
       <<"-", "-", "-">>,
       <<>>,
       <<"#", " ", "F", "r", "o", "m", " ", "C", "o", "n", "c", "e", "p", "t", " ", "t", "o", " ", "S", "c", "e", "n", "e", ":", " ", "3", "D", " ", "i", "n", " ", "R", "e", "a", "c", "t">>,
       <<"#", "#", " ", "W", "r", "a", "p", "p", "i", "n", "g", " ", "U", "p">>,
       <<>>,
       <<>>,
       <<"-", "-", "-">>,
       <<"t", "i", "t", "l", "e", ":", " ", "'", "I", "n", "i", "t", " ", "R", "e", "a", "c", "t", " ", "T", "h", "r", "e", "e", " ", "F", "i", "b", "e", "r", "'">>,
       <<"d", "a", "t", "e", ":", " ", "'", "2", "0", "2", "3", "-", "0", "6", "-", "1", "2", "'">>,
       <<"t", "a", "g", "s", ":", " ", "[", "'", "r", "e", "a", "c", "t", "'", ",", " ", "'", "r", "e", "a", "c", "t", "-", "t", "h", "r", "e", "e", "-", "f", "i", "b", "e", "r", "'", "]">>,
       <<"s", "l", "u", "g", ":", " ", "'", "i", "n", "i", "t", "-", "r", "e", "a", "c", "t", "-", "t", "h", "r", "e", "e", "-", "f", "i", "b", "e", "r", "'">>,
       <<"-", "-", "-">>,
       <<>>,
       <<"#", " ", "I", "n", "i", "t", " ", "R", "e", "a", "c", "t", " ", "T", "h", "r", "e", "e", " ", "F", "i", "b", "e", "r">> >>

\* web-rendering/index.md: lines 1-8
WebRenderingIndexMd ==
    << <<"-", "-", "-">>,
       <<"t", "i", "t", "l", "e", ":", " ", "'", "W", "e", "b", " ", "R", "e", "n", "d", "e", "r", "i", "n", "g", "'">>,
       <<"d", "a", "t", "e", ":", " ", "'", "2", "0", "2", "6", "-", "0", "1", "-", "3", "1", "'">>,
       <<"t", "a", "g", "s", ":", " ", "[", "'", "r", "e", "n", "d", "e", "r", "i", "n", "g", "'", ",", " ", "'", "s", "s", "r", "'", ",", " ", "'", "s", "s", "g", "'", ",", " ", "'", "i", "s", "r", "'", ",", " ", "'", "c", "s", "r", "'", "]">>,
       <<"s", "l", "u", "g", ":", " ", "'", "w", "e", "b", "-", "r", "e", "n", "d", "e", "r", "i", "n", "g", "'">>,
       <<"-", "-", "-">>,
       <<>>,
       <<"#", " ", "W", "e", "b", " ", "R", "e", "n", "d", "e", "r", "i", "n", "g">> >>

\* the third post: lines 1-8
InitReactThreeFiberMd ==
    << <<"-", "-", "-">>,
       <<"t", "i", "t", "l", "e", ":", " ", "'", "I", "n", "i", "t", " ", "R", "e", "a", "c", "t", " ", "T", "h", "r", "e", "e", " ", "F", "i", "b", "e", "r", "'">>,
       <<"d", "a", "t", "e", ":", " ", "'", "2", "0", "2", "3", "-", "0", "6", "-", "1", "2", "'">>,
       <<"t", "a", "g", "s", ":", " ", "[", "'", "r", "e", "a", "c", "t", "'", ",", " ", "'", "r", "e", "a", "c", "t", "-", "t", "h", "r", "e", "e", "-", "f", "i", "b", "e", "r", "'", "]">>,
       <<"s", "l", "u", "g", ":", " ", "'", "i", "n", "i", "t", "-", "r", "e", "a", "c", "t", "-", "t", "h", "r", "e", "e", "-", "f", "i", "b", "e", "r", "'">>,
       <<"-", "-", "-">>,
       <<>>,
       <<"#", " ", "I", "n", "i", "t", " ", "R", "e", "a", "c", "t", " ", "T", "h", "r", "e", "e", " ", "F", "i", "b", "e", "r">> >>

ShippedPosts == {ConceptToScene3dReactMd, WebRenderingIndexMd, InitReactThreeFiberMd}

\* the paths of the two posts under ./src/content/blog
ConceptToScene3dReactPath == <<"c", "o", "n", "c", "e", "p", "t", "-", "t", "o", "-", "s", "c", "e", "n", "e", "-", "3", "d", "-", "r", "e", "a", "c", "t", ".", "m", "d">>
WebRenderingIndexPath == <<"w", "e", "b", "-", "r", "e", "n", "d", "e", "r", "i", "n", "g", "/", "i", "n", "d", "e", "x", ".", "m", "d">>

\* the values the posts' frontmatters give
ConceptTitle == <<"F", "r", "o", "m", " ", "C", "o", "n", "c", "e", "p", "t", " ", "t", "o", " ", "S", "c", "e", "n", "e", ":", " ", "3", "D", " ", "i", "n", " ", "R", "e", "a", "c", "t">>
ConceptSlug == <<"c", "o", "n", "c", "e", "p", "t", "-", "t", "o", "-", "s", "c", "e", "n", "e", "-", "3", "d", "-", "r", "e", "a", "c", "t">>
InitTitle == <<"I", "n", "i", "t", " ", "R", "e", "a", "c", "t", " ", "T", "h", "r", "e", "e", " ", "F", "i", "b", "e", "r">>
InitSlug == <<"i", "n", "i", "t", "-", "r", "e", "a", "c", "t", "-", "t", "h", "r", "e", "e", "-", "f", "i", "b", "e", "r">>
WebTitle == <<"W", "e", "b", " ", "R", "e", "n", "d", "e", "r", "i", "n", "g">>
WebSlug == <<"w", "e", "b", "-", "r", "e", "n", "d", "e", "r", "i", "n", "g">>
Jan31_2026_In == <<"2", "0", "2", "6", "-", "0", "1", "-", "3", "1">>

ReactTags == VArr(<<VStr(<<"r", "e", "a", "c", "t">>), VStr(<<"r", "e", "a", "c", "t", "-", "t", "h", "r", "e", "e", "-", "f", "i", "b", "e", "r">>)>>)
WebTags ==
    VArr(<<VStr(<<"r", "e", "n", "d", "e", "r", "i", "n", "g">>),
           VStr(<<"s", "s", "r">>),
           VStr(<<"s", "s", "g">>),
           VStr(<<"i", "s", "r">>),
           VStr(<<"c", "s", "r">>)>>)

----------------------------------------------------------------------------
(* Texts the entry type is exercised with: a frontmatter (a head), lines  *)
(* after it (a body), blank lines before it.  Each head is written next   *)
(* to the frontmatter it stands for.                                      *)

MaxBlankLines == 1

TitleQuoted == <<"t", "i", "t", "l", "e", ":", " ", "'", "T", "'">>
TitleOther == <<"t", "i", "t", "l", "e", ":", " ", "'", "U", "'">>
TitlePlain == <<"t", "i", "t", "l", "e", ":", " ", "T">>
TitleNumber == <<"t", "i", "t", "l", "e", ":", " ", "1">>
DateQuoted == <<"d", "a", "t", "e", ":", " ", "'", "2", "0", "2", "3", "-", "0", "6", "-", "1", "2", "'">>
DatePlain == <<"d", "a", "t", "e", ":", " ", "2", "0", "2", "3", "-", "0", "6", "-", "1", "2">>
DateMonth13 == <<"d", "a", "t", "e", ":", " ", "'", "2", "0", "2", "3", "-", "1", "3", "-", "0", "1", "'">>
TagsQuoted == <<"t", "a", "g", "s", ":", " ", "[", "'", "r", "'", "]">>
TagsPlain == <<"t", "a", "g", "s", ":", " ", "[", "r", ",", " ", "q", "]">>
TagsScalar == <<"t", "a", "g", "s", ":", " ", "r">>
TagsEmpty == <<"t", "a", "g", "s", ":", " ", "[", "]">>
SlugQuoted == <<"s", "l", "u", "g", ":", " ", "'", "s", "'">>
DraftPair == <<"d", "r", "a", "f", "t", ":", " ", "t", "r", "u", "e">>
HeadingLine == <<"#", " ", "T">>
TextLine == <<"S", "o", "m", "e", " ", "t", "e", "x", "t">>
IndentedFence == <<" ", "-", "-", "-">>

HeadOf(lines, title, date, tags, slug) ==
    [lines |-> lines,
     data |-> [title |-> title, date |-> date, tags |-> tags, slug |-> slug]]

Heads ==
    { HeadOf(<<TitleQuoted, DateQuoted, TagsQuoted, SlugQuoted>>,
           VStr(TextT), VStr(GoodDate), VArr(<<VStr(TagR)>>), VStr(SlugS)),
      HeadOf(<<TitlePlain, DateQuoted, TagsPlain>>,
           VStr(TextT), VStr(GoodDate), VArr(<<VStr(TagR), VStr(TagQ)>>), VUndef),
      HeadOf(<<TagsEmpty, <<>>, DateQuoted, TitleQuoted, DraftPair>>,
           VStr(TextT), VStr(GoodDate), VArr(<<>>), VUndef),
      HeadOf(<<TitleQuoted, DatePlain, TagsQuoted>>,
           VStr(TextT), VDate(GoodDate), VArr(<<VStr(TagR)>>), VUndef),
      HeadOf(<<TitleQuoted, DateMonth13, TagsQuoted, SlugQuoted>>,
           VStr(TextT), VStr(Month13), VArr(<<VStr(TagR)>>), VStr(SlugS)),
      HeadOf(<<DateQuoted, TagsQuoted>>,
           VUndef, VStr(GoodDate), VArr(<<VStr(TagR)>>), VUndef),
      HeadOf(<<TitleQuoted, DateQuoted, TagsScalar>>,
           VStr(TextT), VStr(GoodDate), VStr(TagR), VUndef),
      HeadOf(<<TitleNumber, DateQuoted, TagsQuoted>>,
           VNum(1), VStr(GoodDate), VArr(<<VStr(TagR)>>), VUndef),
      HeadOf(<<HeadingLine, TitleQuoted, DateQuoted>>,
           VStr(TextT), VStr(GoodDate), VUndef, VUndef),
      HeadOf(<<>>, VUndef, VUndef, VUndef, VUndef) }

\* a second block of the kind a frontmatter has, as the lines of a body
Block(lines) == <<Fence>> \o lines \o <<Fence>>

Bodies ==
    { <<>>,
      <<<<>>, HeadingLine, TextLine>>,
      <<<<>>, TextLine, <<>>>> \o Block(<<TitleOther, DateQuoted, TagsQuoted>>) \o <<<<>>, HeadingLine>>,
      <<<<>>, TextLine, <<>>>> \o Block(<<TitleNumber, DateMonth13, TagsScalar>>),
      Block(<<TitleOther, DateMonth13>>),
      <<<<>>, TextLine, <<>>, Fence, TextLine>> }

BlankLines(n) == [i \in 1..n |-> <<>>]

Document(n, head, body) == BlankLines(n) \o Block(head.lines) \o body

Documents ==
    {Document(n, head, body) : n \in 0..MaxBlankLines, head \in Heads, body \in Bodies}

\* texts that have no frontmatter: none at all, a block that is not at the
\* head of the text, a fence that is not closed, a fence that is indented
Headless ==
    { <<>>,
      <<HeadingLine, <<>>, TextLine>>,
      <<TextLine, <<>>>> \o Block(<<TitleQuoted, DateQuoted, TagsQuoted>>),
      <<Fence, TitleQuoted, DateQuoted, TagsQuoted, <<>>, TextLine>>,
      <<IndentedFence, TitleQuoted, DateQuoted, TagsQuoted, Fence>> }

\* texts whose frontmatter is not YAML of one mapping
Unreadable ==
    { Block(<<TitleQuoted, TextLine, DateQuoted>>),
      Block(<<TitleQuoted, TitleOther, DateQuoted, TagsQuoted>>) }

----------------------------------------------------------------------------
(* Specification of a blog entry: one text, its frontmatter read and      *)
(* validated                                                              *)

\* the frontmatter could not be read: the entry fails before the schema
\* is applied
NotRead == ParseFailure({"frontmatter"})

InitEntry ==
    /\ contents \in Documents \cup Headless \cup Unreadable \cup ShippedPosts
    /\ coll = "blog"
    /\ raw = <<>>
    /\ parsed = NotParsed
    /\ FormatIdle
    /\ LoadIdle

SyncEntry ==
    /\ coll = "blog"
    /\ raw = <<>>
    /\ ~parsed.done
    /\ LET info == parseFrontmatter(contents)
       IN  IF info.threw
           THEN raw' = raw /\ parsed' = NotRead
           ELSE raw' = info.data /\ parsed' = blogSchema(info.data)
    /\ UNCHANGED <<contents, fmtVars, coll, projectsVars, blogVars>>

NextEntry == SyncEntry

SpecEntry == InitEntry /\ [][NextEntry]_vars

----------------------------------------------------------------------------
(* Properties of the loaders *)

Indices(q) == 1..Len(q)

SixFields(d) ==
    [id |-> d.id, title |-> d.title, description |-> d.description,
     imagePath |-> d.imagePath, repo |-> d.repo, live |-> d.live]

\* C3: loading a collection is all-or-nothing: when a record of the source
\* fails the schema the load ends in an error and yields no record (never
\* the valid records without the invalid one), and every record a
\* successful load yields satisfies the schema.
C3_AllOrNothing ==
    /\ projectsLoad.n > 0 =>
          /\ (\E i \in Indices(projectsLoad.src) :
                 ~projectsSchema(projectsLoad.src[i]).success)
                => (projectsLoad.status = "error" /\ projectsLoad.entries = <<>>)
          /\ projectsLoad.status = "error" => projectsLoad.entries = <<>>
          /\ \A k \in Indices(projectsLoad.entries) :
                 projectsSchema(projectsLoad.entries[k].data).success
    /\ blogLoad.n > 0 =>
          /\ (\E path \in Matched(blogLoad.src) :
                 ~blogSchema(blogLoad.src[path].data).success)
                => (blogLoad.status = "error" /\ blogLoad.entries = <<>>)
          /\ blogLoad.status = "error" => blogLoad.entries = <<>>
          /\ \A k \in Indices(blogLoad.entries) :
                 LET d == blogLoad.entries[k].data
                 IN  ZodString(d.title) /\ ZodStringDate(d.date)
                         /\ ZodArrayOfString(d.tags)

IsSequenceOfStrings(v) ==
    v.kind = "array" /\ \A i \in Indices(v.items) : v.items[i].kind = "string"

LacksTitleOrTags(d) == d.title.kind = "undefined" \/ ~IsSequenceOfStrings(d.tags)

\* C4: a BlogPost whose frontmatter has no title, or whose tags are not a
\* sequence of strings (missing, a single string, a sequence with a
\* non-string), fails validation when the blog collection is loaded: the
\* load ends in an error, which names title or tags when no other file of
\* the directory is invalid.
C4_TitleAndTagsRequired ==
    (blogLoad.n > 0) =>
        \A path \in Matched(blogLoad.src) :
            LET d == blogLoad.src[path].data
            IN  LacksTitleOrTags(d) =>
                  /\ blogLoad.status = "error"
                  /\ blogLoad.entries = <<>>
                  /\ (\A other \in Matched(blogLoad.src) \ {path} :
                         blogSchema(blogLoad.src[other].data).success)
                       => /\ d.title.kind = "undefined" => "title" \in blogLoad.failed.issues
                          /\ ~IsSequenceOfStrings(d.tags) => "tags" \in blogLoad.failed.issues

C4_Witness ==
    /\ blogLoad.n > 0
    /\ blogLoad.status = "error"
    /\ blogLoad.failed.issues = {"tags"}
    /\ \E path \in Matched(blogLoad.src) :
          blogLoad.src[path].data.tags = VArr(<<VStr(TagR), VNum(1)>>)

WellFormedProject(d) ==
    /\ d.id.kind = "number"
    /\ d.title.kind = "string"
    /\ d.description.kind = "string"
    /\ d.imagePath.kind = "string"
    /\ IsAbsoluteUrlValue(d.repo)
    /\ IsAbsoluteUrlValue(d.live)

C8_ReloadIsEqual ==
    (projectsLoad.n >= 2 /\ projectsPrev.src = projectsLoad.src) =>
        /\ projectsLoad.status = projectsPrev.status
        /\ projectsLoad.entries = projectsPrev.entries
        /\ Len(projectsLoad.entries) = Len(projectsPrev.entries)

C8_Witness ==
    /\ projectsLoad.n >= 2
    /\ projectsPrev.src = projectsLoad.src
    /\ projectsLoad.status = "ok"
    /\ Len(projectsLoad.entries) = 2
    /\ projectsLoad.entries = projectsPrev.entries

\* C11: a load whose source is missing (projects.json does not exist, the
\* blog's base directory does not exist) ends in an error and yields no
\* record: neither an empty collection nor what an earlier load left.
C11_MissingSourceFails ==
    /\ (projectsLoad.n > 0 /\ ~projectsLoad.exists) =>
          (projectsLoad.status = "error" /\ projectsLoad.entries = <<>>)
    /\ (blogLoad.n > 0 /\ ~blogLoad.exists) =>
          (blogLoad.status = "error" /\ blogLoad.entries = <<>>)

\* C12: every schema validation error a load raises identifies the
\* collection by name, the offending record (a blog post by its file, a
\* project by its id) and the fields that failed: the record it points at
\* is one of the source, fails the schema, and fails it in exactly the
\* fields the error names.
C12_ErrorIdentifiesRecord ==
    /\ projectsLoad.status = "error" =>
          LET e == projectsLoad.failed
              src == projectsLoad.src
          IN  /\ e.coll = "projects"
              /\ e.file = ProjectsJsonPath
              /\ e.issues # {}
              /\ \E i \in Indices(src) :
                    /\ itemId(src[i]) = e.id
                    /\ ~projectsSchema(src[i]).success
                    /\ projectsSchema(src[i]).issues = e.issues
    /\ blogLoad.status = "error" =>
          LET e == blogLoad.failed
              src == blogLoad.src
          IN  /\ e.coll = "blog"
              /\ e.file \in Matched(src)
              /\ e.issues # {}
              /\ ~blogSchema(src[e.file].data).success
              /\ blogSchema(src[e.file].data).issues = e.issues

C12_Witness ==
    /\ projectsLoad.status = "error"
    /\ projectsLoad.failed =
          [coll |-> "projects", id |-> <<"2">>, file |-> ProjectsJsonPath,
           issues |-> {"repo"}]
    /\ Len(projectsLoad.src) = 2
    /\ projectsLoad.src[1] = GoodProject(1, TextT)

\* the three validated fields of a frontmatter
ThreeFields(d) == [title |-> d.title, date |-> d.date, tags |-> d.tags]

\* the files of a directory with extension .md or .mdx, at any depth
MarkdownFiles(dir) ==
    {path \in DOMAIN dir :
        /\ dir[path].present
        /\ ExtName(path) \in {<<".", "m", "d">>, <<".", "m", "d", "x">>}}

\* the path, or a directory of it, is a dot file
IsHidden(path) ==
    path[1] = "." \/ \E i \in 1..(Len(path) - 1) : path[i] = "/" /\ path[i + 1] = "."

\* the id of the post a file holds: the slug its frontmatter gives, else
\* the path without extension, an index file named by its directory
StemOf(path) ==
    IF path = PostMd THEN <<"p", "o", "s", "t">>
    ELSE IF path \in {WebIndexMdx, WebMd} THEN <<"w", "e", "b">>
    ELSE path

HasSlug(d) == d.slug.kind = "string" /\ d.slug.str # <<>>

PostId(dir, path) ==
    IF HasSlug(dir[path].data) THEN dir[path].data.slug.str ELSE StemOf(path)

C16_TagsKeptAsGiven ==
    (coll = "blog" /\ parsed.done) =>
        /\ (ZodString(raw.title) /\ ZodStringDate(raw.date) /\ IsSequenceOfStrings(raw.tags))
              => parsed.success
        /\ parsed.success =>
              /\ Len(parsed.data.tags.items) = Len(raw.tags.items)
              /\ \A i \in Indices(raw.tags.items) :
                    parsed.data.tags.items[i] = raw.tags.items[i]

C16_Witness ==
    /\ coll = "blog"
    /\ parsed.success
    /\ raw.tags = VArr(<<VStr(TagQ), VStr(TagR), VStr(TagQ)>>)
    /\ parsed.data.tags.items = <<VStr(TagQ), VStr(TagR), VStr(TagQ)>>

ProjectFieldNames == {"id", "title", "description", "imagePath", "repo", "live"}

\* C20: a Project record that lacks any one of the six declared fields, or
\* whose id is not a number (the string "1"), fails validation, and the
\* failure names the field.
C20_SixFieldsRequired ==
    (coll = "projects" /\ parsed.done) =>
        /\ \A f \in ProjectFieldNames :
              raw[f].kind = "undefined" => (~parsed.success /\ f \in parsed.issues)
        /\ raw.id.kind # "number" => (~parsed.success /\ "id" \in parsed.issues)

C20_Witness ==
    /\ coll = "projects"
    /\ parsed.done
    /\ ~parsed.success
    /\ raw.id = VStr(<<"1">>)
    /\ parsed.issues = {"id"}

\* the element carries what the loader takes its id from
HasIdOrSlug(item) == item.id.kind # "undefined" \/ item.slug.kind # "undefined"

\* C17: the elements of projects.json are validated one by one and nothing
\* checks that ids are unique: a load fails exactly when an element it
\* validates fails the schema by itself, and a file of well-formed records
\* passes, two records of the same id included.
C17_NoIdUniqueness ==
    (projectsLoad.n > 0 /\ projectsLoad.exists) =>
        LET src == projectsLoad.src
        IN  /\ (projectsLoad.status = "error") <=>
                  \E i \in Indices(src) :
                      HasIdOrSlug(src[i]) /\ ~projectsSchema(src[i]).success
            /\ (\A i \in Indices(src) : WellFormedProject(src[i]))
                  => projectsLoad.status = "ok"

C17_Witness ==
    /\ projectsLoad.n > 0
    /\ projectsLoad.exists
    /\ projectsLoad.src = <<GoodProject(1, TextT), GoodProject(1, TextU)>>
    /\ projectsLoad.status = "ok"

\* every record of the source satisfies its collection's schema
ProjectsAllValid(src) == \A i \in Indices(src) : projectsSchema(src[i]).success

BlogAllValid(src) == \A path \in Matched(src) : blogSchema(src[path].data).success

\* C18: every load validates every record again, whatever an earlier load
\* accepted or refused: of two loads in a row with an edit of the source
\* between them, when the edit makes a record invalid the first load
\* succeeds and the second fails, and when the edit repairs the invalid
\* records the first load fails and the second succeeds.
C18_RevalidatedEachLoad ==
    /\ projectsLoad.n >= 2 =>
          /\ (ProjectsAllValid(projectsPrev.src) /\ ~ProjectsAllValid(projectsLoad.src))
                => (projectsPrev.status = "ok" /\ projectsLoad.status = "error")
          /\ (~ProjectsAllValid(projectsPrev.src) /\ ProjectsAllValid(projectsLoad.src))
                => (projectsPrev.status = "error" /\ projectsLoad.status = "ok")
    /\ blogLoad.n >= 2 =>
          /\ (BlogAllValid(blogPrev.src) /\ ~BlogAllValid(blogLoad.src))
                => (blogPrev.status = "ok" /\ blogLoad.status = "error")
          /\ (~BlogAllValid(blogPrev.src) /\ BlogAllValid(blogLoad.src))
                => (blogPrev.status = "error" /\ blogLoad.status = "ok")

BlogFieldNames == {"title", "date", "tags"}

\* C21: a frontmatter key the blog schema does not declare (slug) does not
\* make validation fail: a frontmatter validates exactly when its title,
\* date and tags do, with or without a slug; and the validated data holds
\* the declared fields title, date and tags, with the frontmatter's values,
\* and no other key.
C21_UndeclaredKeyStripped ==
    (coll = "blog" /\ parsed.done) =>
        /\ parsed.success <=>
              (ZodString(raw.title) /\ ZodStringDate(raw.date) /\ IsSequenceOfStrings(raw.tags))
        /\ parsed.success =>
              /\ DOMAIN parsed.data = BlogFieldNames
              /\ \A f \in BlogFieldNames : parsed.data[f] = raw[f]

C21_Witness ==
    /\ coll = "blog"
    /\ raw.slug = VStr(SlugS)
    /\ parsed.success
    /\ DOMAIN parsed.data = BlogFieldNames
    /\ parsed.data.title = VStr(TextT)

\* the frontmatter each post of the repository declares at its head
ShippedFrontmatters ==
    { [text |-> ConceptToScene3dReactMd,
       data |-> [title |-> VStr(ConceptTitle), date |-> VStr(Jun12_2023_In),
                 tags |-> ReactTags, slug |-> VStr(ConceptSlug)]],
      [text |-> WebRenderingIndexMd,
       data |-> [title |-> VStr(WebTitle), date |-> VStr(Jan31_2026_In),
                 tags |-> WebTags, slug |-> VStr(WebSlug)]],
      [text |-> InitReactThreeFiberMd,
       data |-> [title |-> VStr(InitTitle), date |-> VStr(Jun12_2023_In),
                 tags |-> ReactTags, slug |-> VStr(InitSlug)]] }

\* the directory ./src/content/blog of the repository
ShippedDir ==
    (ConceptToScene3dReactPath :> File(parseFrontmatter(ConceptToScene3dReactMd).data))
    @@ (WebRenderingIndexPath :> File(parseFrontmatter(WebRenderingIndexMd).data))

ShippedOrders ==
    { <<ConceptToScene3dReactPath, WebRenderingIndexPath>>,
      <<WebRenderingIndexPath, ConceptToScene3dReactPath>> }

\* C22: every post of the repository passes the blog schema, with the
\* title, date and tags of the block at its head, and a load of the blog
\* from the repository's files ends well with one entry per post; what is
\* validated is the frontmatter at the head of a text and nothing after
\* it: whatever follows the closing fence, a second block between fences
\* with values that would fail included, the outcome is the schema's
\* outcome on the head's frontmatter; a text that does not open with a
\* block has the empty frontmatter.
C22_ShippedPostsPass ==
    (coll = "blog" /\ parsed.done) =>
        /\ \A p \in ShippedFrontmatters :
              contents = p.text =>
                  /\ raw = p.data
                  /\ parsed = ParseSuccess(ThreeFields(p.data))
        /\ contents \in ShippedPosts =>
              \A order \in ShippedOrders :
                  LET r == globLoad(TRUE, <<>>, ShippedDir, order)
                  IN  /\ \A i \in Indices(order) : GlobMatches(order[i])
                      /\ ~r.threw
                      /\ StoreIds(r.store) = {ConceptSlug, WebSlug}
        /\ \A n \in 0..MaxBlankLines, head \in Heads, body \in Bodies :
              contents = Document(n, head, body) =>
                  /\ raw = head.data
                  /\ parsed = blogSchema(head.data)
        /\ contents \in Headless =>
              /\ raw = EmptyFrontmatter
              /\ ~parsed.success
              /\ parsed.issues = BlogFieldNames

\* the post that holds a second block in its body is validated by the
\* block at its head
C22_Witness ==
    /\ contents = ConceptToScene3dReactMd
    /\ Cardinality({i \in Indices(contents) : contents[i] = Fence}) = 4
    /\ parsed.success
    /\ parsed.data.title = VStr(ConceptTitle)

====
